---- MODULE Spec2Model ----
(***************************************************************************)
(* A model of git_flow_library.GitFlowLibrary: a stateless facade that     *)
(* builds argument vectors, runs `git` / `git flow` child processes in a   *)
(* working directory and reads the gitflow section of the repository's     *)
(* configuration.  The library keeps no state of its own; the state of the *)
(* model is what the library acts on (the configuration store, the         *)
(* filesystem) and what a caller observes of one call (the processes it    *)
(* spawned and how it ended).                                              *)
(*                                                                         *)
(* A text (a Python str) is a sequence of tokens.  A token is either a     *)
(* single character (" ", "\n", "a") or a literal word of the source       *)
(* ("git", "-F", "gitflow") that is never split.  Concatenation and        *)
(* f-string formatting are \o, str.strip() is Strip.                       *)
(***************************************************************************)
EXTENDS Integers, Sequences, FiniteSets, TLC

\* Longest text a caller passes as a name, a base or a tag message.
MaxLen == 1
\* Deepest directory of the filesystem chain /, /a, /a/a, ...
MaxDepth == 3

---------------------------------------------------------------------------
(* Texts and optional values *)

Whitespace == {" ", "\n"}

RECURSIVE LStrip(_)
LStrip(s) ==
    IF s # <<>> /\ Head(s) \in Whitespace THEN LStrip(Tail(s)) ELSE s

RECURSIVE RStrip(_)
RStrip(s) ==
    IF s # <<>> /\ s[Len(s)] \in Whitespace
    THEN RStrip(SubSeq(s, 1, Len(s) - 1))
    ELSE s

\* str.strip()
Strip(s) == RStrip(LStrip(s))

\* A literal word of the source as a text.
Word(w) == <<w>>

\* All texts over the alphabet `chars` of length at most n.
Texts(chars, n) == UNION {[1..k -> chars] : k \in 0..n}

\* Python's None (and the False that finish uses as the default of
\* tag_message) against a supplied str.
None == [some |-> FALSE, v |-> <<>>]
Some(s) == [some |-> TRUE, v |-> s]
Opt(S) == {None} \cup {Some(s) : s \in S}

\* Python truthiness of a `str | None` value: `if name:`, `if not branch:`.
Truthy(x) == x.some /\ x.v # <<>>

---------------------------------------------------------------------------
(* The environment: directories, the configuration store, child processes *)

\* "repo" is an existing working tree, "missing" a path that does not exist
\* (subprocess.run with cwd=missing raises FileNotFoundError, an OSError).
Directories == {"repo", "missing"}
Exists(directory) == directory = "repo"

\* Branch identifiers a caller passes to get_branch_base / set_branch_base.
BranchSeq == <<"feature">>
Branches == {BranchSeq[i] : i \in DOMAIN BranchSeq}

\* The entries the extension keeps, without the "gitflow." prefix: the two
\* long-lived branches, and the base `git flow config base --set` records.
KeyMaster == <<"branch.master">>
KeyDevelop == <<"branch.develop">>
KeyBase(branch) == <<"branch.", branch, ".base">>
\* A key the extension never writes: a key with no entry.
KeyOther == <<"prefix.versiontag">>

\* f'gitflow.{key}'
ConfigKey(key) == <<"gitflow.">> \o key

\* The keys of the store, in the order `git config` lists them.
StoreKeySeq ==
    <<KeyMaster, KeyDevelop>> \o [i \in DOMAIN BranchSeq |-> KeyBase(BranchSeq[i])]
StoreKeys == {StoreKeySeq[i] : i \in DOMAIN StoreKeySeq}
ReadKeys == StoreKeys \cup {KeyOther}

\* Names a caller passes for branches, bases and tag messages.
ArgTexts == Texts({"a"}, MaxLen)
\* Values a caller passes as a base: empty, blank, padded and plain ones.
BaseTexts == Texts({" ", "a"}, MaxLen)

\* Values the repository owner may have put in the store by hand.
EditedValues == {<<>>, <<" ", "m", " ">>}

VARIABLES
    config,   \* the gitflow section of the repository's configuration
    fs,       \* fs[d]: what `.git` is in the directory at depth d
    last,     \* the call the caller is looking at, NoCall between calls
    prev      \* what the preceding call was, as far as the next one depends on it

vars == <<config, fs, last, prev>>

\* What a child process did: the argv, whether it could be launched, its
\* exit status and its standard output.
Proc(cmd, launched, rc, stdout) ==
    [cmd |-> cmd, launched |-> launched, rc |-> rc, stdout |-> stdout]

NotLaunched(cmd) == Proc(cmd, FALSE, 0, <<>>)

ExitCodes == {0, 1}

\* The store of a repository in which the extension was never initialised.
EmptyConfig == [k \in StoreKeys |-> None]

\* What `git config --get-regexp ^gitflow` prints for a store: one line
\* "<key> <value>" per entry.
RECURSIVE ListingFrom(_, _)
ListingFrom(cfg, i) ==
    IF i > Len(StoreKeySeq) THEN <<>>
    ELSE LET k == StoreKeySeq[i]
             line == IF cfg[k].some
                     THEN ConfigKey(k) \o <<" ">> \o cfg[k].v \o <<"\n">>
                     ELSE <<>>
         IN line \o ListingFrom(cfg, i + 1)

Listing(cfg) == ListingFrom(cfg, 1)

\* ['git', 'config', '--get-regexp', '^gitflow']
QueryCmd == <<Word("git"), Word("config"), Word("--get-regexp"), Word("^gitflow")>>

\* The query as git itself answers it: status 0 and the listing when an
\* entry matches, status 1 and no output when none does.
QueryOfGit(cfg) ==
    Proc(QueryCmd, TRUE, IF Listing(cfg) = <<>> THEN 1 ELSE 0, Listing(cfg))

\* Every way the query process can end.  The `git` found on PATH is not the
\* library's: any exit status may come with no output, blank output or the
\* listing.  In a directory that does not exist the process cannot start.
RunQuery(directory, cfg) ==
    IF ~Exists(directory) THEN {NotLaunched(QueryCmd)}
    ELSE {Proc(QueryCmd, TRUE, rc, out) :
            rc \in ExitCodes, out \in {<<>>, <<"\n">>, Listing(cfg)}}

\* ['git', 'config', f'gitflow.{key}']
ReadCmd(key) == <<Word("git"), Word("config"), ConfigKey(key)>>

\* `git config <key>`: the value and a newline with status 0, or nothing
\* with status 1 when the key has no entry.
RunRead(key, directory, cfg) ==
    IF ~Exists(directory) THEN {NotLaunched(ReadCmd(key))}
    ELSE IF key \in StoreKeys /\ cfg[key].some
         THEN {Proc(ReadCmd(key), TRUE, 0, cfg[key].v \o <<"\n">>)}
         ELSE {Proc(ReadCmd(key), TRUE, 1, <<>>)}

\* ['git', 'flow', 'config', 'base', '--set', branch, base]
SetBaseCmd(branch, base) ==
    <<Word("git"), Word("flow"), Word("config"), Word("base"), Word("--set"),
      Word(branch), base>>

\* `git flow config base --set`: it records the base and exits 0, or it
\* refuses (an unknown branch, an invalid name) and exits 1 with the store
\* as it was.  Each element is the process and the store it leaves.
RunSetBase(branch, base, directory, cfg) ==
    IF ~Exists(directory)
    THEN {[proc |-> NotLaunched(SetBaseCmd(branch, base)), config |-> cfg]}
    ELSE {[proc |-> Proc(SetBaseCmd(branch, base), TRUE, 0, <<>>),
           config |-> [cfg EXCEPT ![KeyBase(branch)] = Some(base)]],
          [proc |-> Proc(SetBaseCmd(branch, base), TRUE, 1, <<>>),
           config |-> cfg]}

\* Branch types a caller passes; the library does not validate them.
BranchTypes == {"feature", "release", "hotfix", "support"}

\* Names `git flow init` gives the two long-lived branches: its defaults
\* with -d, what the user answers at the prompts without.
InitNames(defaults) ==
    IF defaults
    THEN {[master |-> Word("master"), develop |-> Word("develop")]}
    ELSE {[master |-> m, develop |-> Word("develop")] :
            m \in {Word("master"), Word("main")}}

\* `git flow init`: it exits 0 leaving both branch names configured (a usable
\* name already in the store is kept), or it fails and exits 1 with the
\* store as it was.
RunInit(cmd, directory, defaults, cfg) ==
    IF ~Exists(directory) THEN {[proc |-> NotLaunched(cmd), config |-> cfg]}
    ELSE {[proc |-> Proc(cmd, TRUE, 0, <<>>),
           config |-> [cfg EXCEPT
               ![KeyMaster] = IF Truthy(@) THEN @ ELSE Some(n.master),
               ![KeyDevelop] = IF Truthy(@) THEN @ ELSE Some(n.develop)]] :
            n \in InitNames(defaults)}
         \cup {[proc |-> Proc(cmd, TRUE, 1, <<>>), config |-> cfg]}

\* `git flow <type> start|checkout|finish`: it works on branches, not on the
\* gitflow section of the configuration, and exits with any status.
RunFlow(cmd, directory) ==
    IF ~Exists(directory) THEN {NotLaunched(cmd)}
    ELSE {Proc(cmd, TRUE, rc, <<>>) : rc \in ExitCodes}

---------------------------------------------------------------------------
(* How a call ends *)

Outcome(kind, value, flag, msg, directory) ==
    [kind |-> kind, value |-> value, flag |-> flag, msg |-> msg,
     directory |-> directory]

Return(value) == Outcome("return", value, FALSE, "", "")
ReturnBool(b) == Outcome("return", None, b, "", "")
Raise(kind, msg, directory) == Outcome(kind, None, FALSE, msg, directory)

\* subprocess.run(cmd, cwd=directory, check=check) as the caller sees it.
SubprocessRun(p, check) ==
    IF ~p.launched THEN Raise("OSError", "", "")
    ELSE IF check /\ p.rc # 0 THEN Raise("CalledProcessError", "", "")
    ELSE Return(None)

NoArgs ==
    [branch_type |-> "", name |-> None, base |-> None, fetch |-> FALSE,
     keep |-> FALSE, tag_message |-> None, defaults |-> FALSE,
     key |-> <<>>, branch |-> "", path |-> <<>>, absolute |-> FALSE]

Call(op, directory, args, procs, result, fresh) ==
    [op |-> op, directory |-> directory, args |-> args, procs |-> procs,
     result |-> result, fresh |-> fresh]

NoCall == Call("", "", NoArgs, <<>>, Return(None), FALSE)

NoPrev == [op |-> "", branch |-> "", base |-> <<>>, rc |-> 0, fresh |-> FALSE]

---------------------------------------------------------------------------
(* The configuration operations, as functions of what their processes do *)

\* The check without `result.returncode == 0`.
is_gitflow_enabled_any_status(q) ==
    q.launched /\ Strip(q.stdout) # <<>>

\* is_gitflow_enabled: q is the query process.  A process that cannot be
\* launched raises inside the try block and the except clause returns False.
is_gitflow_enabled(q) ==
    q.launched /\ q.rc = 0 /\ Strip(q.stdout) # <<>>

\* The read without `if out else None`: the trimmed output as it is.
get_config_value_raw(key, directory, q, r) ==
    IF ~is_gitflow_enabled(q)
    THEN [procs |-> <<q>>,
          result |-> Raise("RuntimeError", "not enabled", directory)]
    ELSE [procs |-> <<q, r>>,
          result |-> IF ~r.launched THEN Raise("OSError", "", "")
                     ELSE Return(Some(Strip(r.stdout)))]

\* get_config_value: q is the query process of the enabled-check, r the
\* read process, which is started only past the check.
get_config_value(key, directory, q, r) ==
    IF ~is_gitflow_enabled(q)
    THEN [procs |-> <<q>>,
          result |-> Raise("RuntimeError", "not enabled", directory)]
    ELSE [procs |-> <<q, r>>,
          result |-> IF ~r.launched THEN Raise("OSError", "", "")
                     ELSE LET out == Strip(r.stdout)
                          IN Return(IF out # <<>> THEN Some(out) ELSE None)]

\* get_master_branch and get_develop_branch: g is what get_config_value
\* did; its exception propagates, a falsy value is an error of its own.
BranchGetter(g) ==
    IF g.result.kind # "return" THEN g
    ELSE IF ~Truthy(g.result.value)
         THEN [g EXCEPT !.result = Raise("RuntimeError", "not set", "")]
         ELSE g

\* The getter without `if not branch: raise`.
get_master_branch_unchecked(directory, q, r) ==
    get_config_value(KeyMaster, directory, q, r)

get_master_branch(directory, q, r) ==
    BranchGetter(get_config_value(KeyMaster, directory, q, r))

get_develop_branch(directory, q, r) ==
    BranchGetter(get_config_value(KeyDevelop, directory, q, r))

\* The key without its ".base" suffix.
get_branch_base_key_short(branch) == <<"branch.", branch>>

\* get_branch_base reads the key f'branch.{branch}.base'.
get_branch_base_key(branch) == <<"branch.", branch, ".base">>

get_branch_base(branch, directory, q, r) ==
    get_config_value(get_branch_base_key(branch), directory, q, r)

\* The setter without its enabled-check.
set_branch_base_unguarded(branch, base, directory, cfg, q, s) ==
    [procs |-> <<q, s.proc>>, config |-> s.config,
     result |-> SubprocessRun(s.proc, FALSE)]

\* The setter with check=True on its run.
set_branch_base_checked(branch, base, directory, cfg, q, s) ==
    IF ~is_gitflow_enabled(q)
    THEN [procs |-> <<q>>, config |-> cfg,
          result |-> Raise("RuntimeError", "not enabled", directory)]
    ELSE [procs |-> <<q, s.proc>>, config |-> s.config,
          result |-> SubprocessRun(s.proc, TRUE)]

\* set_branch_base: q is the query process of the enabled-check, s the
\* `flow config base --set` process with the store it leaves; cfg is the
\* store when the call begins.  The run has no check=True.
set_branch_base(branch, base, directory, cfg, q, s) ==
    IF ~is_gitflow_enabled(q)
    THEN [procs |-> <<q>>, config |-> cfg,
          result |-> Raise("RuntimeError", "not enabled", directory)]
    ELSE [procs |-> <<q, s.proc>>, config |-> s.config,
          result |-> SubprocessRun(s.proc, FALSE)]

---------------------------------------------------------------------------
(* The branch-lifecycle operations *)

InitCmd(defaults) ==
    <<Word("git"), Word("flow"), Word("init")>>
        \o (IF defaults THEN <<Word("-d")>> ELSE <<>>)

\* init: p is the process run with check=True.
init(p) == [procs |-> <<p>>, result |-> SubprocessRun(p, TRUE)]

StartCmd(branch_type, name, base, fetch) ==
    <<Word("git"), Word("flow"), Word(branch_type), Word("start")>>
        \o (IF fetch THEN <<Word("-f")>> ELSE <<>>)
        \o <<name>>
        \o (IF Truthy(base) THEN <<base.v>> ELSE <<>>)

start(p) == [procs |-> <<p>>, result |-> SubprocessRun(p, TRUE)]

CheckoutCmd(branch_type, name) ==
    <<Word("git"), Word("flow"), Word(branch_type), Word("checkout")>>
        \o (IF Truthy(name) THEN <<name.v>> ELSE <<>>)

\* checkout without check=True.
checkout_unchecked(p) == [procs |-> <<p>>, result |-> SubprocessRun(p, FALSE)]

checkout(p) == [procs |-> <<p>>, result |-> SubprocessRun(p, TRUE)]

\* The argv with -k appended before -F.
FinishCmd_keep_first(branch_type, name, fetch, keep, tag_message) ==
    <<Word("git"), Word("flow"), Word(branch_type), Word("finish")>>
        \o (IF Truthy(name) THEN <<name.v>> ELSE <<>>)
        \o (IF keep THEN <<Word("-k")>> ELSE <<>>)
        \o (IF fetch THEN <<Word("-F")>> ELSE <<>>)
        \o (IF Truthy(tag_message) /\ branch_type \in {"release", "hotfix"}
            THEN <<Word("-m"), tag_message.v>> ELSE <<>>)

\* The argv finish builds; the -m pair only on the branch that does not raise.
FinishCmd(branch_type, name, fetch, keep, tag_message) ==
    <<Word("git"), Word("flow"), Word(branch_type), Word("finish")>>
        \o (IF Truthy(name) THEN <<name.v>> ELSE <<>>)
        \o (IF fetch THEN <<Word("-F")>> ELSE <<>>)
        \o (IF keep THEN <<Word("-k")>> ELSE <<>>)
        \o (IF Truthy(tag_message) /\ branch_type \in {"release", "hotfix"}
            THEN <<Word("-m"), tag_message.v>> ELSE <<>>)

\* finish without the branch-type test on the tag message.
finish_unvalidated(branch_type, tag_message, p) ==
    [procs |-> <<p>>, result |-> SubprocessRun(p, TRUE)]

\* finish: the ValueError is raised while the argv is built, before
\* subprocess.run; p is the process run with check=True otherwise.
finish(branch_type, tag_message, p) ==
    IF Truthy(tag_message) /\ branch_type \notin {"release", "hotfix"}
    THEN [procs |-> <<>>, result |-> Raise("ValueError", "tag_message", "")]
    ELSE [procs |-> <<p>>, result |-> SubprocessRun(p, TRUE)]

---------------------------------------------------------------------------
(* get_git_root *)

\* A path is the sequence of its components below the filesystem root; the
\* root is <<>>.  The tree is the chain /, /a, /a/a, ... down to MaxDepth.
Parent(path) ==
    IF path = <<>> THEN path ELSE SubSeq(path, 1, Len(path) - 1)

\* The caller's working directory, against which a relative path resolves.
Cwd == <<"a">>

RECURSIVE Normalized(_, _)
Normalized(parts, acc) ==
    IF parts = <<>> THEN acc
    ELSE IF Head(parts) = ".." THEN Normalized(Tail(parts), Parent(acc))
    ELSE Normalized(Tail(parts), Append(acc, Head(parts)))

\* Path(directory).resolve(): absolute, with every ".." folded.
Resolve(absolute, parts) ==
    Normalized((IF absolute THEN <<>> ELSE Cwd) \o parts, <<>>)

\* (path / '.git').is_dir() in the tree t.
GitIsDir(t, path) == Len(path) \in DOMAIN t /\ t[Len(path)] = "dir"

RECURSIVE Walk(_, _)
Walk(t, path) ==
    IF path = Parent(path) THEN None
    ELSE IF GitIsDir(t, path) THEN Some(Append(path, ".git"))
    ELSE Walk(t, Parent(path))

get_git_root(t, absolute, parts) == Walk(t, Resolve(absolute, parts))

---------------------------------------------------------------------------
(* The state machine *)

\* A fixed tree for the runs that are not about the filesystem.
NoGit == [d \in 0..MaxDepth |-> "none"]

Init ==
    /\ config = EmptyConfig
    /\ fs = NoGit
    /\ last = NoCall
    /\ prev = NoPrev

Idle == last = NoCall

Fresh == config = EmptyConfig

\* What the next call can depend on of the call that has just ended.
Summary(l) ==
    IF l.op = "set_branch_base" /\ l.result.kind = "return"
    THEN [op |-> l.op, branch |-> l.args.branch, base |-> l.args.base.v,
          rc |-> l.procs[2].rc, fresh |-> FALSE]
    ELSE IF l.op = "init" /\ l.result.kind = "return" /\ l.args.defaults
    THEN [op |-> l.op, branch |-> "", base |-> <<>>, rc |-> l.procs[1].rc,
          fresh |-> l.fresh]
    ELSE NoPrev

\* The caller takes the result; the library keeps nothing between calls.
Done ==
    /\ ~Idle
    /\ last' = NoCall
    /\ prev' = Summary(last)
    /\ UNCHANGED <<config, fs>>

\* The owner of the repository edits or removes a gitflow entry by hand.
ExternalConfig ==
    /\ Idle
    /\ \E k \in StoreKeys, v \in Opt(EditedValues) :
        config' = [config EXCEPT ![k] = v]
    /\ prev' = NoPrev
    /\ UNCHANGED <<fs, last>>

Call_is_gitflow_enabled ==
    /\ Idle
    /\ \E directory \in Directories :
       \E q \in RunQuery(directory, config) :
        last' = Call("is_gitflow_enabled", directory, NoArgs, <<q>>,
                     ReturnBool(is_gitflow_enabled(q)), Fresh)
    /\ UNCHANGED <<config, fs, prev>>

Call_get_config_value ==
    /\ Idle
    /\ \E directory \in Directories, key \in ReadKeys :
       \E q \in RunQuery(directory, config) :
       \E r \in RunRead(key, directory, config) :
        LET g == get_config_value(key, directory, q, r)
        IN last' = Call("get_config_value", directory,
                        [NoArgs EXCEPT !.key = key], g.procs, g.result, Fresh)
    /\ UNCHANGED <<config, fs, prev>>

Call_get_master_branch ==
    /\ Idle
    /\ \E directory \in Directories :
       \E q \in RunQuery(directory, config) :
       \E r \in RunRead(KeyMaster, directory, config) :
        LET g == get_master_branch(directory, q, r)
        IN last' = Call("get_master_branch", directory, NoArgs,
                        g.procs, g.result, Fresh)
    /\ UNCHANGED <<config, fs, prev>>

Call_get_develop_branch ==
    /\ Idle
    /\ \E directory \in Directories :
       \E q \in RunQuery(directory, config) :
       \E r \in RunRead(KeyDevelop, directory, config) :
        LET g == get_develop_branch(directory, q, r)
        IN last' = Call("get_develop_branch", directory, NoArgs,
                        g.procs, g.result, Fresh)
    /\ UNCHANGED <<config, fs, prev>>

Call_get_branch_base ==
    /\ Idle
    /\ \E directory \in Directories, branch \in Branches :
       \E q \in RunQuery(directory, config) :
       \E r \in RunRead(get_branch_base_key(branch), directory, config) :
        LET g == get_branch_base(branch, directory, q, r)
        IN last' = Call("get_branch_base", directory,
                        [NoArgs EXCEPT !.branch = branch],
                        g.procs, g.result, Fresh)
    /\ UNCHANGED <<config, fs, prev>>

Call_set_branch_base ==
    /\ Idle
    /\ \E directory \in Directories, branch \in Branches, base \in BaseTexts :
       \E q \in RunQuery(directory, config) :
       \E s \in RunSetBase(branch, base, directory, config) :
        LET g == set_branch_base(branch, base, directory, config, q, s)
        IN /\ last' = Call("set_branch_base", directory,
                           [NoArgs EXCEPT !.branch = branch,
                                          !.base = Some(base)],
                           g.procs, g.result, Fresh)
           /\ config' = g.config
    /\ UNCHANGED <<fs, prev>>

Call_init ==
    /\ Idle
    /\ \E directory \in Directories, defaults \in BOOLEAN :
       \E i \in RunInit(InitCmd(defaults), directory, defaults, config) :
        LET g == init(i.proc)
        IN /\ last' = Call("init", directory,
                           [NoArgs EXCEPT !.defaults = defaults],
                           g.procs, g.result, Fresh)
           /\ config' = i.config
    /\ UNCHANGED <<fs, prev>>

Call_start ==
    /\ Idle
    /\ \E directory \in Directories, branch_type \in BranchTypes,
          name \in ArgTexts, base \in Opt(ArgTexts), fetch \in BOOLEAN :
       \E p \in RunFlow(StartCmd(branch_type, name, base, fetch), directory) :
        LET g == start(p)
        IN last' = Call("start", directory,
                        [NoArgs EXCEPT !.branch_type = branch_type,
                                       !.name = Some(name), !.base = base,
                                       !.fetch = fetch],
                        g.procs, g.result, Fresh)
    /\ UNCHANGED <<config, fs, prev>>

Call_checkout ==
    /\ Idle
    /\ \E directory \in Directories, branch_type \in BranchTypes,
          name \in Opt(ArgTexts) :
       \E p \in RunFlow(CheckoutCmd(branch_type, name), directory) :
        LET g == checkout(p)
        IN last' = Call("checkout", directory,
                        [NoArgs EXCEPT !.branch_type = branch_type,
                                       !.name = name],
                        g.procs, g.result, Fresh)
    /\ UNCHANGED <<config, fs, prev>>

Call_finish ==
    /\ Idle
    /\ \E directory \in Directories, branch_type \in BranchTypes,
          name \in Opt(ArgTexts), fetch \in BOOLEAN, keep \in BOOLEAN,
          tag_message \in Opt(ArgTexts) :
       \E p \in RunFlow(FinishCmd(branch_type, name, fetch, keep, tag_message),
                        directory) :
        LET g == finish(branch_type, tag_message, p)
        IN last' = Call("finish", directory,
                        [NoArgs EXCEPT !.branch_type = branch_type,
                                       !.name = name, !.fetch = fetch,
                                       !.keep = keep,
                                       !.tag_message = tag_message],
                        g.procs, g.result, Fresh)
    /\ UNCHANGED <<config, fs, prev>>

Next ==
    \/ Done
    \/ ExternalConfig
    \/ Call_init
    \/ Call_start
    \/ Call_checkout
    \/ Call_finish
    \/ Call_is_gitflow_enabled
    \/ Call_get_config_value
    \/ Call_get_master_branch
    \/ Call_get_develop_branch
    \/ Call_get_branch_base
    \/ Call_set_branch_base

Spec == Init /\ [][Next]_vars

\* The paths a caller passes to get_git_root.
PathParts == Texts({"a", ".."}, MaxDepth)

Trees == [0..MaxDepth -> {"none", "file", "dir"}]

InitRoot ==
    /\ config = EmptyConfig
    /\ fs \in Trees
    /\ last = NoCall
    /\ prev = NoPrev

Call_get_git_root ==
    /\ Idle
    /\ \E absolute \in BOOLEAN, parts \in PathParts :
        last' = Call("get_git_root", "",
                     [NoArgs EXCEPT !.absolute = absolute, !.path = parts],
                     <<>>, Return(get_git_root(fs, absolute, parts)), Fresh)
    /\ UNCHANGED <<config, fs, prev>>

NextRoot ==
    \/ Done
    \/ Call_get_git_root

SpecRoot == InitRoot /\ [][NextRoot]_vars

---------------------------------------------------------------------------
(* Properties *)

\* A text has something left after trimming: some token is not whitespace.
NonBlank(s) == \E i \in DOMAIN s : s[i] \notin Whitespace

\* The enabled-check accepted what the process p did.
Accepted(p) == p.launched /\ p.rc = 0 /\ NonBlank(p.stdout)

ConfigOps ==
    {"get_config_value", "get_master_branch", "get_develop_branch",
     "get_branch_base", "set_branch_base"}

LifecycleOps == {"init", "start", "checkout", "finish"}

\* C1: is_gitflow_enabled always returns, never raises, whatever the
\* directory and whatever the query process does; it returns true exactly
\* when the process was launched, exited with status 0 and printed
\* something other than whitespace, and false in every other case.
C1_EnabledCheckNeverRaises ==
    last.op = "is_gitflow_enabled" =>
        /\ last.result.kind = "return"
        /\ Len(last.procs) = 1
        /\ last.procs[1].cmd = QueryCmd
        /\ last.result.flag = Accepted(last.procs[1])

\* The check came back false although the process printed the listing:
\* it had exited with a non-zero status.
C1_Witness ==
    /\ last.op = "is_gitflow_enabled"
    /\ last.procs[1].launched
    /\ last.procs[1].rc # 0
    /\ NonBlank(last.procs[1].stdout)
    /\ last.result = ReturnBool(FALSE)

\* C2, the part about one call: a configuration operation runs the
\* enabled-check first and starts its own process (the config read, or
\* `flow config base --set`) only if the check accepted; when the check
\* refused, the call ends with the invalid-state error naming the directory
\* and the query is the only process it started.
C2_Guarded ==
    last.op \in ConfigOps =>
        /\ Len(last.procs) >= 1
        /\ last.procs[1].cmd = QueryCmd
        /\ Len(last.procs) <= 2
        /\ Len(last.procs) = 2 => Accepted(last.procs[1])
        /\ ~Accepted(last.procs[1]) =>
            /\ last.result.kind = "RuntimeError"
            /\ last.result.msg = "not enabled"
            /\ last.result.directory = last.directory
            /\ Len(last.procs) = 1

\* C2, the part about the store: a configuration operation whose
\* enabled-check refused leaves the configuration store as it was.
C2_StoreKept ==
    (last'.op \in ConfigOps /\ ~Accepted(last'.procs[1])) => config' = config

\* C2: configuration reads and writes are attempted only past a true
\* enabled-check; a false one ends the operation with an invalid-state
\* error naming the directory, no further process and the store unchanged.
C2_OnlyWhenEnabled == [](C2_Guarded) /\ [][C2_StoreKept]_vars

\* set_branch_base was refused in an existing repository whose store holds
\* entries: the query process failed.
C2_Witness ==
    /\ last.op = "set_branch_base"
    /\ last.directory = "repo"
    /\ config # EmptyConfig
    /\ last.result.kind = "RuntimeError"
    /\ Len(last.procs) = 1

\* C3 as stated: whenever finish is given a tag message, any string at all,
\* a branch type other than release or hotfix is rejected with ValueError
\* and no process, and release or hotfix is not rejected and spawns the
\* finish process.
C3_AnyTagMessage ==
    (last.op = "finish" /\ last.args.tag_message.some) =>
        IF last.args.branch_type \notin {"release", "hotfix"}
        THEN last.result.kind = "ValueError" /\ last.procs = <<>>
        ELSE /\ last.result.kind # "ValueError"
             /\ Len(last.procs) = 1
             /\ last.procs[1].cmd[4] = Word("finish")

\* C3, amended: the same for every non-empty tag message; an empty string
\* counts as no tag message and is never rejected.
C3_NonEmptyTagMessage ==
    /\ (last.op = "finish" /\ last.args.tag_message.some
            /\ last.args.tag_message.v # <<>>) =>
        IF last.args.branch_type \notin {"release", "hotfix"}
        THEN last.result.kind = "ValueError" /\ last.procs = <<>>
        ELSE /\ last.result.kind # "ValueError"
             /\ Len(last.procs) = 1
             /\ last.procs[1].cmd[4] = Word("finish")
    /\ (last.op = "finish" /\ last.args.tag_message = Some(<<>>)) =>
        /\ last.result.kind # "ValueError"
        /\ Len(last.procs) = 1

\* finish on a feature branch with a tag message, name, -F and -k all given:
\* rejected, nothing spawned.
C3_Witness ==
    /\ last.op = "finish"
    /\ last.args.branch_type = "feature"
    /\ last.args.tag_message = Some(<<"a">>)
    /\ Truthy(last.args.name) /\ last.args.fetch /\ last.args.keep
    /\ last.result.kind = "ValueError"
    /\ last.procs = <<>>

\* C4: init, start, checkout and finish never return normally when the
\* process they spawned exited with a non-zero status: each ends with the
\* process-failure error.
C4_LifecycleFailsLoudly ==
    (/\ last.op \in LifecycleOps
     /\ Len(last.procs) = 1
     /\ last.procs[1].launched
     /\ last.procs[1].rc # 0) => last.result.kind = "CalledProcessError"

\* checkout whose process exited 1.
C4_Witness ==
    /\ last.op = "checkout"
    /\ last.procs[1].launched
    /\ last.procs[1].rc = 1
    /\ last.result.kind = "CalledProcessError"

\* The arguments the claim puts after `git flow <type> finish`, given
\* whether the name and the tag message count as supplied.
FinishTail(a, with_name, with_message) ==
    (IF with_name THEN <<a.name.v>> ELSE <<>>)
        \o (IF a.fetch THEN <<Word("-F")>> ELSE <<>>)
        \o (IF a.keep THEN <<Word("-k")>> ELSE <<>>)
        \o (IF with_message THEN <<Word("-m"), a.tag_message.v>> ELSE <<>>)

\* C9 as stated: every finish that is not rejected spawns exactly
\* git flow <type> finish [name] [-F] [-k] [-m message], each element there
\* exactly when its input was supplied, the empty string included.
C9_ArgvWhenSupplied ==
    (last.op = "finish" /\ Len(last.procs) = 1) =>
        last.procs[1].cmd =
            <<Word("git"), Word("flow"), Word(last.args.branch_type),
              Word("finish")>>
                \o FinishTail(last.args, last.args.name.some,
                              last.args.tag_message.some)

\* C9, amended: the name and the -m pair are there exactly when the name,
\* resp. the tag message, is a non-empty string; -F and -k exactly when
\* fetch, resp. keep, is set; in that order and nothing else.
C9_ArgvWhenNonEmpty ==
    (last.op = "finish" /\ Len(last.procs) = 1) =>
        last.procs[1].cmd =
            <<Word("git"), Word("flow"), Word(last.args.branch_type),
              Word("finish")>>
                \o FinishTail(last.args, Truthy(last.args.name),
                              Truthy(last.args.tag_message))

\* finish of a release with all four inputs given: 9 arguments.
C9_Witness ==
    /\ last.op = "finish"
    /\ last.args.branch_type = "release"
    /\ Truthy(last.args.name) /\ last.args.fetch /\ last.args.keep
    /\ Truthy(last.args.tag_message)
    /\ Len(last.procs) = 1
    /\ Len(last.procs[1].cmd) = 9

\* The process an operation spawns for its own work: past the query of the
\* enabled-check in a configuration operation.
OwnProcs(l) ==
    IF l.op \in ConfigOps
    THEN {l.procs[i] : i \in 2..Len(l.procs)}
    ELSE {l.procs[i] : i \in 1..Len(l.procs)}

FailedOwnProc(l) == \E p \in OwnProcs(l) : p.launched /\ p.rc # 0

\* C10 as stated: in every operation but is_gitflow_enabled, a non-zero
\* exit of the process the operation spawns ends the call with an error.
C10_NothingSwallowed ==
    (last.op \notin {"", "is_gitflow_enabled"} /\ FailedOwnProc(last)) =>
        last.result.kind # "return"

\* C10, amended: a non-zero exit is surfaced as a process-failure error by
\* init, start, checkout and finish only.  set_branch_base returns normally
\* after it, get_config_value and get_branch_base return the trimmed output
\* or absent, and get_master_branch / get_develop_branch return the trimmed
\* output or raise their own internal-consistency error.
C10_SwallowedByConfigOps ==
    FailedOwnProc(last) =>
        /\ last.op \in LifecycleOps =>
            last.result.kind = "CalledProcessError"
        /\ last.op = "set_branch_base" => last.result = Return(None)
        /\ last.op \in {"get_config_value", "get_branch_base"} =>
            /\ last.result.kind = "return"
            /\ last.result.value =
                (IF NonBlank(last.procs[2].stdout)
                 THEN Some(Strip(last.procs[2].stdout)) ELSE None)
        /\ last.op \in {"get_master_branch", "get_develop_branch"} =>
            IF NonBlank(last.procs[2].stdout)
            THEN last.result = Return(Some(Strip(last.procs[2].stdout)))
            ELSE last.result.kind = "RuntimeError"
                 /\ last.result.msg = "not set"

\* set_branch_base returned normally although `flow config base --set`
\* exited 1.
C10_Witness ==
    /\ last.op = "set_branch_base"
    /\ Len(last.procs) = 2
    /\ last.procs[2].rc = 1
    /\ last.result = Return(None)

\* The value a read of `key` hands back for the store cfg: the entry
\* trimmed, absent when there is no entry or nothing is left of it.
Stored(cfg, key) ==
    IF key \in StoreKeys /\ cfg[key].some /\ NonBlank(cfg[key].v)
    THEN Some(Strip(cfg[key].v))
    ELSE None

\* get_branch_base follows a set_branch_base of the same branch that
\* returned normally, and its own enabled-check accepted.
RoundTrip ==
    /\ last.op = "get_branch_base"
    /\ prev.op = "set_branch_base"
    /\ prev.branch = last.args.branch
    /\ Len(last.procs) = 2

C7_TrimmedOrAbsent ==
    (last.op = "get_config_value" /\ Accepted(last.procs[1])) =>
        /\ last.result.kind = "return"
        /\ last.result.value = Stored(config, last.args.key)
        /\ last.result.value # Some(<<>>)
        /\ last.procs[2].cmd =
            <<Word("git"), Word("config"), <<"gitflow.">> \o last.args.key>>

\* A padded entry " m " read as "m".
C7_Witness ==
    /\ last.op = "get_config_value"
    /\ last.args.key = KeyMaster
    /\ config[KeyMaster] = Some(<<" ", "m", " ">>)
    /\ last.result = Return(Some(<<"m">>))

\* The name get_master_branch / get_develop_branch hands back.
GetterKey(op) == IF op = "get_master_branch" THEN KeyMaster ELSE KeyDevelop

\* The call follows an init with defaults that succeeded in a repository
\* without any gitflow entry, and git answers the query as git does.
AfterFreshInit ==
    /\ prev.op = "init" /\ prev.fresh /\ prev.rc = 0
    /\ Len(last.procs) >= 1
    /\ last.procs[1] = QueryOfGit(config)

\* C8: get_master_branch and get_develop_branch return neither absent nor
\* the empty string.  Past a true enabled-check they return the trimmed
\* entry when it is non-empty and raise the internal-consistency error when
\* the entry is missing or empty; right after a successful init with
\* defaults in a fresh repository the enabled-check returns true and both
\* getters return a non-empty name.
C8_BranchGettersNonEmpty ==
    /\ last.op \in {"get_master_branch", "get_develop_branch"} =>
        /\ last.result.kind = "return" => Truthy(last.result.value)
        /\ Accepted(last.procs[1]) =>
            IF Stored(config, GetterKey(last.op)) = None
            THEN last.result.kind = "RuntimeError"
                 /\ last.result.msg = "not set"
            ELSE last.result = Return(Stored(config, GetterKey(last.op)))
        /\ AfterFreshInit =>
            last.result.kind = "return" /\ Truthy(last.result.value)
    /\ (last.op = "is_gitflow_enabled" /\ AfterFreshInit) =>
        last.result = ReturnBool(TRUE)

\* get_master_branch right after init -d in a fresh repository.
C8_Witness ==
    /\ last.op = "get_master_branch"
    /\ AfterFreshInit
    /\ last.result = Return(Some(Word("master")))

\* The directories of the walk as the claim describes it: the resolved
\* starting directory itself, then each parent short of the filesystem
\* root.
Walked(origin) ==
    {origin} \cup {SubSeq(origin, 1, k) : k \in 1..Len(origin)}

WithGit(origin) == {d \in Walked(origin) : GitIsDir(fs, d)}

Nearest(S) == CHOOSE d \in S : \A e \in S : Len(e) <= Len(d)

\* C5: get_git_root returns the .git of the nearest directory of that walk
\* which holds a .git directory, and absent exactly when none of them does.
C5_NearestGitOfWalk ==
    last.op = "get_git_root" =>
        LET origin == Resolve(last.args.absolute, last.args.path)
        IN /\ last.result.kind = "return"
           /\ last.result.value =
                (IF WithGit(origin) = {} THEN None
                 ELSE Some(Append(Nearest(WithGit(origin)), ".git")))

====
